---- MODULE Spec2Model ----
(***************************************************************************)
(* Hiring Pipeline Manager: the Home component of pages/index.tsx (the     *)
(* in-memory graph repository, the filter engine and the team layout) and  *)
(* the persistence endpoint of pages/api/data.ts.                          *)
(***************************************************************************)
EXTENDS Integers, Sequences, FiniteSets, Bags, TLC

VARIABLES
    nodes,           \* useState<Person[]>            index.tsx:55
    links,           \* useState<Link[]>              index.tsx:56
    newNode,         \* top form                      index.tsx:57
    connection,      \* "Connect To" select           index.tsx:63
    filterStatus,    \* index.tsx:64
    filterStarred,   \* index.tsx:65
    filterTeam,      \* index.tsx:66
    teamOption,      \* team select of the top form   index.tsx:67
    selectedPerson,  \* edited copy, or Null          index.tsx:68
    childName,       \* index.tsx:71
    childStatus,     \* index.tsx:72
    childStarred,    \* index.tsx:73
    file,            \* content of data.json, or NoFile          data.ts:5
    requests,        \* bag of fetch requests not yet handled
    responses,       \* bag of responses not yet received by the page
    lastPost,        \* payload of the POST the endpoint handled last, or Null
    lastOp           \* the handler that ran last and how it ended

vars == <<nodes, links, newNode, connection, filterStatus, filterStarred,
          filterTeam, teamOption, selectedPerson, childName, childStatus,
          childStarred, file, requests, responses, lastPost, lastOp>>

form == <<newNode, connection, teamOption>>
filters == <<filterStatus, filterStarred, filterTeam>>
childForm == <<childName, childStatus, childStarred>>
server == <<file, requests, responses, lastPost>>

-----------------------------------------------------------------------------
(* Bounds of the model. *)

\* a mutation that appends is taken only while nodes is shorter than this
MaxNodes == 2
\* a fetch is issued only while fewer than this many are unanswered
MaxInFlight == 2
\* number of Persons of a document drawn for the render-time projection
MaxViewNodes == 2
\* teams of the documents whose team grid is checked: a fourth row starts
\* with the tenth team
MaxTeams == 10
\* numbers of Links of a document drawn for the render-time projection
ViewLinkCounts == {0, 1}

\* values typed into the name fields
Names == {"Ann"}
\* values typed into the team field
TeamNames == {"Eng"}
\* positions at which a drag stops
DragStops == {<<120, -35>>}

-----------------------------------------------------------------------------
(* Values. *)

Null == [null |-> TRUE]
\* fs.existsSync(dataFilePath) is false; a stored text t is <<t>>
NoFile == <<>>

\* useState initial value / reset value of the top form, index.tsx:57-62,124
EmptyNewNode == [name |-> "", status |-> "To do", starred |-> FALSE, team |-> ""]

Digits == <<"0", "1", "2", "3", "4", "5", "6", "7", "8", "9">>

\* Number.prototype.toString() of a non-negative integer
RECURSIVE NumToString(_)
NumToString(n) ==
    IF n < 10 THEN Digits[n + 1]
    ELSE NumToString(n \div 10) \o Digits[(n % 10) + 1]

\* String.prototype.startsWith
StartsWith(s, prefix) ==
    /\ Len(s) >= Len(prefix)
    /\ SubSeq(s, 1, Len(prefix)) = prefix

\* node.x !== undefined: a Person is a record whose x / y fields exist
\* only once a position has been stored
HasField(rec, k) == k \in DOMAIN rec

\* { ...n, x, y }
WithXY(n, x, y) ==
    [k \in (DOMAIN n) \cup {"x", "y"} |->
        IF k = "x" THEN x ELSE IF k = "y" THEN y ELSE n[k]]

Front(seq) == SubSeq(seq, 1, Len(seq) - 1)
Last(seq) == seq[Len(seq)]

-----------------------------------------------------------------------------
(* Filtering, index.tsx:188-197. *)

\* nodePasses with the starred test comparing the flag with the filter
nodePasses_StarredEqualsFilter(node) ==
    LET statusMatch == IF filterStatus # "" THEN node.status = filterStatus ELSE TRUE
        starredMatch == node.starred = filterStarred
        teamMatch == IF filterTeam # "" THEN node.team = filterTeam ELSE TRUE
    IN statusMatch /\ starredMatch /\ teamMatch

\* the predicate of nodes.filter: an empty string and false are falsy
nodePasses(node) ==
    LET statusMatch == IF filterStatus # "" THEN node.status = filterStatus ELSE TRUE
        starredMatch == IF filterStarred THEN node.starred = TRUE ELSE TRUE
        teamMatch == IF filterTeam # "" THEN node.team = filterTeam ELSE TRUE
    IN statusMatch /\ starredMatch /\ teamMatch

filteredNodes == SelectSeq(nodes, nodePasses)

filteredNodeIds == {filteredNodes[i].id : i \in 1..Len(filteredNodes)}

\* linkPasses with the test of the target left out
linkPasses_SourceOnly(link) == link.source \in filteredNodeIds

linkPasses(link) ==
    link.source \in filteredNodeIds /\ link.target \in filteredNodeIds

filteredLinks == SelectSeq(links, linkPasses)

-----------------------------------------------------------------------------
(* Team grouping and layout, index.tsx:202-294. *)

\* A JavaScript Map is a sequence of [key, value] entries in insertion order.
MapHas(m, k) == \E i \in 1..Len(m) : m[i].key = k
MapGet(m, k) == m[CHOOSE i \in 1..Len(m) : m[i].key = k].value

\* filteredNodes.forEach(...teamNodesMap.set...), index.tsx:203-209
RECURSIVE teamNodesMapOf(_)
teamNodesMapOf(visible) ==
    IF visible = <<>> THEN <<>>
    ELSE LET m == teamNodesMapOf(Front(visible))
             node == Last(visible)
         IN IF node.team # "" /\ ~MapHas(m, node.team)
            THEN Append(m, [key |-> node.team,
                            value |-> [id |-> "team_" \o node.team,
                                       label |-> node.team]])
            ELSE m

\* teamNodesMap built from all the Persons, hidden ones included
teamNodesMap_OfAllNodes == teamNodesMapOf(nodes)

teamNodesMap == teamNodesMapOf(filteredNodes)

yPositions == <<50, 450, 850>>
TEAMS_IN_A_ROW == 3

\* Array.from(m.values())
MapValues(m) == [i \in 1..Len(m) |-> m[i].value]

teamNodesArray == MapValues(teamNodesMap)

\* yPositionOf that repeats the last row offset past the end of the list
yPositionOf_LastRowRepeats(row) ==
    IF row < Len(yPositions) THEN yPositions[row + 1] ELSE yPositions[Len(yPositions)]

\* yPositions[row] || 0, with row counted from 0
yPositionOf(row) == IF row < Len(yPositions) THEN yPositions[row + 1] ELSE 0

pinnedTeamNodesOf(arr) ==
    [k \in 1..Len(arr) |->
           LET index == k - 1
               row == index \div TEAMS_IN_A_ROW
           IN [id |-> arr[k].id,
               label |-> arr[k].label,
               fx |-> ((index % TEAMS_IN_A_ROW) + 1) * 800,
               fy |-> yPositionOf(row)]]

pinnedTeamNodes == pinnedTeamNodesOf(teamNodesArray)

teamLinksOf(members) ==
    [i \in 1..Len(members) |->
        [source |-> "team_" \o members[i].team, target |-> members[i].id]]

\* teamLinks built from all the Persons, hidden ones included
teamLinks_OfAllNodes == teamLinksOf(SelectSeq(nodes, LAMBDA node : node.team # ""))

teamLinks == teamLinksOf(SelectSeq(filteredNodes, LAMBDA node : node.team # ""))

\* pinnedTeamNodes.forEach(...teamPositions.set...): the labels are distinct
teamPositionsOf(pinned) ==
    [i \in 1..Len(pinned) |->
        [key |-> pinned[i].label,
         value |-> [x |-> pinned[i].fx, y |-> pinned[i].fy]]]

teamPositions == teamPositionsOf(pinnedTeamNodes)

radius == 200

\* radius * Math.cos(2*PI*i/n) and radius * Math.sin(2*PI*i/n), rounded to
\* the nearest integer, for the i-th (from 0) of n members, n <= 6
circleX(i, n) ==
    <<  <<200>>,
        <<200, -200>>,
        <<200, -100, -100>>,
        <<200, 0, -200, 0>>,
        <<200, 62, -162, -162, 62>>,
        <<200, 100, -100, -200, -100, 100>>  >>[n][i + 1]

circleY(i, n) ==
    <<  <<0>>,
        <<0, 0>>,
        <<0, 173, -173>>,
        <<0, 200, 0, -200>>,
        <<0, 190, 118, -118, -190>>,
        <<0, 173, 173, 0, -173, -173>>  >>[n][i + 1]

\* the test of the first forEach, index.tsx:249: node.team &&
\* teamPositions.has(node.team)
inTeamGroup(node, positions) == node.team # "" /\ MapHas(positions, node.team)

\* teamGroups: team -> Person[], the teams in the order of their first
\* member and the members in the order of filteredNodes
teamGroupsOf(positions, fn) ==
    LET grouped == SelectSeq(fn, LAMBDA node : inTeamGroup(node, positions))
        keys == SelectSeq(positions,
                          LAMBDA e : \E i \in 1..Len(grouped) : grouped[i].team = e.key)
    IN [k \in 1..Len(keys) |->
           [key |-> keys[k].key,
            value |-> SelectSeq(grouped, LAMBDA node : node.team = keys[k].key)]]

teamGroups == teamGroupsOf(teamPositions, filteredNodes)

\* the nodes pushed by the else branch, index.tsx:254-265
ungroupedPersonNodesOf(positions, fn) ==
    LET rest == SelectSeq(fn, LAMBDA node : ~inTeamGroup(node, positions))
    IN [i \in 1..Len(rest) |->
           [id |-> rest[i].id,
            x |-> IF HasField(rest[i], "x") THEN rest[i].x ELSE 0,
            y |-> IF HasField(rest[i], "y") THEN rest[i].y ELSE 0]]

ungroupedPersonNodes == ungroupedPersonNodesOf(teamPositions, filteredNodes)

\* the nodes pushed for one team group, index.tsx:269-289
circlePersonNodes(entry, positions) ==
    LET teamPos == MapGet(positions, entry.key)
        nodesInTeam == entry.value
        numNodes == Len(nodesInTeam)
    IN [k \in 1..numNodes |->
           [id |-> nodesInTeam[k].id,
            x |-> teamPos.x + circleX(k - 1, numNodes),
            y |-> teamPos.y + circleY(k - 1, numNodes)]]

RECURSIVE groupedPersonNodes(_, _)
groupedPersonNodes(groups, positions) ==
    IF groups = <<>> THEN <<>>
    ELSE circlePersonNodes(Head(groups), positions)
         \o groupedPersonNodes(Tail(groups), positions)

graphPersonNodes ==
    ungroupedPersonNodes \o groupedPersonNodes(teamGroups, teamPositions)

graphNodes == graphPersonNodes \o pinnedTeamNodes
graphLinks == filteredLinks \o teamLinks

\* index.tsx:299-310
rfNode(node) ==
    [id |-> node.id,
     position |->
         [x |-> IF HasField(node, "x") THEN node.x
                ELSE IF HasField(node, "fx") THEN node.fx ELSE 0,
          y |-> IF HasField(node, "y") THEN node.y
                ELSE IF HasField(node, "fy") THEN node.fy ELSE 0],
     draggable |-> ~StartsWith(node.id, "team_")]

rfNodesOf(gn) == [i \in 1..Len(gn) |-> rfNode(gn[i])]

rfNodes == rfNodesOf(graphNodes)

\* index.tsx:314-322 (the animated flag is left out)
rfEdgesOf(gl) ==
    [i \in 1..Len(gl) |-> [source |-> gl[i].source, target |-> gl[i].target]]

rfEdges == rfEdgesOf(graphLinks)

-----------------------------------------------------------------------------
(* JSON text.  The text of an object is the function from its keys to the  *)
(* literals of their values; the text of a Document holds the texts of its *)
(* nodes and links in order.                                               *)

\* the literal of a number: an optional sign and the decimal digits
NumLiteral(n) == IF n < 0 THEN "-" \o NumToString(0 - n) ELSE NumToString(n)

DigitValue(c) == CHOOSE d \in 0..9 : Digits[d + 1] = c

RECURSIVE ParseDigits(_)
ParseDigits(str) ==
    IF Len(str) = 1 THEN DigitValue(str)
    ELSE 10 * ParseDigits(SubSeq(str, 1, Len(str) - 1))
         + DigitValue(SubSeq(str, Len(str), Len(str)))

\* JSON.stringify of the value of field k of a Person or Link
Literal(k, v) ==
    IF k \in {"x", "y"} THEN NumLiteral(v)
    ELSE IF k = "starred" THEN (IF v THEN "true" ELSE "false")
    ELSE "'" \o v \o "'"

\* JSON.parse of one literal
ParseLiteral(lit) ==
    IF SubSeq(lit, 1, 1) = "'" THEN SubSeq(lit, 2, Len(lit) - 1)
    ELSE IF lit = "true" THEN TRUE
    ELSE IF lit = "false" THEN FALSE
    ELSE IF SubSeq(lit, 1, 1) = "-" THEN 0 - ParseDigits(SubSeq(lit, 2, Len(lit)))
    ELSE ParseDigits(lit)

stringifyObject(obj) == [k \in DOMAIN obj |-> Literal(k, obj[k])]
parseObject(text) == [k \in DOMAIN text |-> ParseLiteral(text[k])]

\* the text of a file that was opened for writing and not written, or cut
\* short: it has no keys, and JSON.parse throws on it
EmptyText == <<>>

\* JSON.stringify(payload), index.tsx:106 and data.ts:17
JSONstringify(doc) ==
    [nodes |-> [i \in 1..Len(doc.nodes) |-> stringifyObject(doc.nodes[i])],
     links |-> [i \in 1..Len(doc.links) |-> stringifyObject(doc.links[i])]]

\* JSON.parse(data), data.ts:11, and res.json(), index.tsx:93
JSONparse(text) ==
    [nodes |-> [i \in 1..Len(text.nodes) |-> parseObject(text.nodes[i])],
     links |-> [i \in 1..Len(text.links) |-> parseObject(text.links[i])]]

-----------------------------------------------------------------------------
(* The persistence endpoint, data.ts:7-22. *)

\* handler whose POST appends the posted nodes and links to the stored ones
handler_MergesDocuments(req, stored) ==
    IF req.method = "GET"
    THEN IF stored # NoFile
         THEN [status |-> 200, body |-> JSONstringify(JSONparse(stored[1])), stored |-> stored]
         ELSE [status |-> 200,
               body |-> JSONstringify([nodes |-> <<>>, links |-> <<>>]),
               stored |-> stored]
    ELSE IF req.method = "POST"
    THEN LET data == JSONparse(req.body)
             old == IF stored = NoFile THEN [nodes |-> <<>>, links |-> <<>>]
                    ELSE JSONparse(stored[1])
         IN [status |-> 200,
             body |-> [message |-> "'Data saved'"],
             stored |-> <<JSONstringify([nodes |-> old.nodes \o data.nodes,
                                         links |-> old.links \o data.links])>>]
    ELSE [status |-> 405, body |-> Null, stored |-> stored]

\* handler whose GET answers 404 while no document is stored
handler_NotFoundWithoutFile(req, stored) ==
    IF req.method = "GET"
    THEN IF stored # NoFile
         THEN [status |-> 200, body |-> JSONstringify(JSONparse(stored[1])), stored |-> stored]
         ELSE [status |-> 404, body |-> Null, stored |-> stored]
    ELSE IF req.method = "POST"
    THEN LET data == JSONparse(req.body)
         IN [status |-> 200,
             body |-> [message |-> "'Data saved'"],
             stored |-> <<JSONstringify(data)>>]
    ELSE [status |-> 405, body |-> Null, stored |-> stored]

\* handler that removes the stored document on a verb other than GET and POST
handler_OtherVerbClearsStore(req, stored) ==
    IF req.method = "GET"
    THEN IF stored # NoFile
         THEN [status |-> 200, body |-> JSONstringify(JSONparse(stored[1])), stored |-> stored]
         ELSE [status |-> 200,
               body |-> JSONstringify([nodes |-> <<>>, links |-> <<>>]),
               stored |-> stored]
    ELSE IF req.method = "POST"
    THEN LET data == JSONparse(req.body)
         IN [status |-> 200,
             body |-> [message |-> "'Data saved'"],
             stored |-> <<JSONstringify(data)>>]
    ELSE [status |-> 405, body |-> Null, stored |-> NoFile]

\* handler with a POST that writes data.json only while it does not exist
handler_WritesOnce(req, stored) ==
    IF req.method = "GET"
    THEN IF stored # NoFile
         THEN [status |-> 200, body |-> JSONstringify(JSONparse(stored[1])), stored |-> stored]
         ELSE [status |-> 200,
               body |-> JSONstringify([nodes |-> <<>>, links |-> <<>>]),
               stored |-> stored]
    ELSE IF req.method = "POST"
    THEN LET data == JSONparse(req.body)
         IN [status |-> 200,
             body |-> [message |-> "'Data saved'"],
             stored |-> IF stored = NoFile THEN <<JSONstringify(data)>> ELSE stored]
    ELSE [status |-> 405, body |-> Null, stored |-> stored]

\* the response of handler(req) and the content of data.json after it;
\* when JSON.parse throws, the framework answers 500 with a body that is
\* no JSON text
handler(req, stored) ==
    IF req.method = "GET"
    THEN IF stored # NoFile
         THEN IF stored[1] = EmptyText
              THEN [status |-> 500, body |-> Null, stored |-> stored]
              ELSE [status |-> 200, body |-> JSONstringify(JSONparse(stored[1])),
                    stored |-> stored]
         ELSE [status |-> 200,
               body |-> JSONstringify([nodes |-> <<>>, links |-> <<>>]),
               stored |-> stored]
    ELSE IF req.method = "POST"
    THEN LET data == JSONparse(req.body)
         IN [status |-> 200,
             body |-> [message |-> "'Data saved'"],
             stored |-> <<JSONstringify(data)>>]
    ELSE [status |-> 405, body |-> Null, stored |-> stored]

InFlight == BagCardinality(requests) + BagCardinality(responses)

\* the endpoint handles one of the requests that reached it
HandleRequest(req) ==
    /\ BagIn(req, requests)
    /\ LET res == handler(req, file)
       IN /\ file' = res.stored
          /\ responses' = responses (+) SetToBag({[status |-> res.status,
                                                   body |-> res.body,
                                                   to |-> req.from]})
    /\ requests' = requests (-) SetToBag({req})
    /\ lastPost' = IF req.method = "POST" THEN req.payload ELSE lastPost
    /\ lastOp' = <<"handler", req.method>>
    /\ UNCHANGED <<nodes, links, form, filters, selectedPerson, childForm>>

-----------------------------------------------------------------------------
(* The page: fetches, index.tsx:90-108. *)

\* fetch('/api/data') of loadData, index.tsx:92
loadRequest == [method |-> "GET", payload |-> Null, body |-> Null, from |-> "loadData"]

\* saveRequest that sends the links of the graph, team links included
saveRequest_GraphLinks(updatedNodes, updatedLinks, from) ==
    LET payload == [nodes |-> updatedNodes, links |-> updatedLinks \o teamLinks]
    IN [method |-> "POST", payload |-> payload, body |-> JSONstringify(payload),
        from |-> from]

\* saveData(updatedNodes, updatedLinks) called by the handler `from`
saveRequest(updatedNodes, updatedLinks, from) ==
    LET payload == [nodes |-> updatedNodes, links |-> updatedLinks]
    IN [method |-> "POST", payload |-> payload, body |-> JSONstringify(payload),
        from |-> from]

\* saveData that sends nothing when the document equals the one posted last
saveData_SkipsStoredDocument(updatedNodes, updatedLinks, from) ==
    /\ requests' =
           IF [nodes |-> updatedNodes, links |-> updatedLinks] = lastPost
           THEN requests
           ELSE requests (+) SetToBag({saveRequest(updatedNodes, updatedLinks, from)})
    /\ UNCHANGED <<file, responses, lastPost>>

saveData(updatedNodes, updatedLinks, from) ==
    /\ requests' = requests (+) SetToBag({saveRequest(updatedNodes, updatedLinks, from)})
    /\ UNCHANGED <<file, responses, lastPost>>

\* a handler returned before doing anything
Return(op) ==
    /\ lastOp' = <<op, "return">>
    /\ UNCHANGED <<nodes, links, form, filters, selectedPerson, childForm, server>>

\* the code after an await runs when the response arrives
ReceiveResponse(res) ==
    /\ BagIn(res, responses)
    /\ responses' = responses (-) SetToBag({res})
    /\ IF res.to = "loadData"
       THEN IF res.status = 500
            \* res.json() throws on the body: nothing is set, index.tsx:93
            THEN UNCHANGED <<nodes, links, selectedPerson>>
            ELSE LET data == JSONparse(res.body)
                 IN /\ nodes' = data.nodes
                    /\ links' = data.links
                    /\ UNCHANGED selectedPerson
       ELSE IF res.to = "updatePerson"
       THEN /\ selectedPerson' = Null
            /\ UNCHANGED <<nodes, links>>
       ELSE UNCHANGED <<nodes, links, selectedPerson>>
    /\ lastOp' = <<"response", res.to>>
    /\ UNCHANGED <<form, filters, childForm, file, requests, lastPost>>

-----------------------------------------------------------------------------
(* The page: mutations, index.tsx:113-183. *)

\* addNode without the test of the name
addNode_NoNameCheck ==
    LET id == NumToString(Len(nodes) + 1)
        nodeToAdd == [name |-> newNode.name, status |-> newNode.status,
                      starred |-> newNode.starred, team |-> newNode.team,
                      id |-> id, notes |-> ""]
        updatedNodes == Append(nodes, nodeToAdd)
        updatedLinks == IF connection # ""
                        THEN Append(links, [source |-> connection, target |-> id])
                        ELSE links
    IN /\ Len(nodes) < MaxNodes
       /\ nodes' = updatedNodes
       /\ links' = updatedLinks
       /\ newNode' = EmptyNewNode
       /\ teamOption' = ""
       /\ connection' = ""
       /\ saveData(updatedNodes, updatedLinks, "addNode")
       /\ lastOp' = <<"addNode", "done">>
       /\ UNCHANGED <<filters, selectedPerson, childForm>>

\* addNode with the id taken from the node count, not the count plus one
addNode_IdFromLength ==
    IF newNode.name = "" THEN Return("addNode")
    ELSE LET id == NumToString(Len(nodes))
             nodeToAdd == [name |-> newNode.name, status |-> newNode.status,
                           starred |-> newNode.starred, team |-> newNode.team,
                           id |-> id, notes |-> ""]
             updatedNodes == Append(nodes, nodeToAdd)
             updatedLinks == IF connection # ""
                             THEN Append(links, [source |-> connection, target |-> id])
                             ELSE links
         IN /\ Len(nodes) < MaxNodes
            /\ nodes' = updatedNodes
            /\ links' = updatedLinks
            /\ newNode' = EmptyNewNode
            /\ teamOption' = ""
            /\ connection' = ""
            /\ saveData(updatedNodes, updatedLinks, "addNode")
            /\ lastOp' = <<"addNode", "done">>
            /\ UNCHANGED <<filters, selectedPerson, childForm>>

addNode ==
    IF newNode.name = "" THEN Return("addNode")
    ELSE LET id == NumToString(Len(nodes) + 1)
             nodeToAdd == [name |-> newNode.name, status |-> newNode.status,
                           starred |-> newNode.starred, team |-> newNode.team,
                           id |-> id, notes |-> ""]
             updatedNodes == Append(nodes, nodeToAdd)
             updatedLinks == IF connection # ""
                             THEN Append(links, [source |-> connection, target |-> id])
                             ELSE links
         IN /\ Len(nodes) < MaxNodes
            /\ nodes' = updatedNodes
            /\ links' = updatedLinks
            /\ newNode' = EmptyNewNode
            /\ teamOption' = ""
            /\ connection' = ""
            /\ saveData(updatedNodes, updatedLinks, "addNode")
            /\ lastOp' = <<"addNode", "done">>
            /\ UNCHANGED <<filters, selectedPerson, childForm>>

updatePerson ==
    IF selectedPerson = Null THEN Return("updatePerson")
    ELSE LET updatedNodes ==
                 [i \in 1..Len(nodes) |-> IF nodes[i].id = selectedPerson.id
                                          THEN selectedPerson ELSE nodes[i]]
         IN /\ nodes' = updatedNodes
            /\ saveData(updatedNodes, links, "updatePerson")
            /\ lastOp' = <<"updatePerson", "done">>
            /\ UNCHANGED <<links, form, filters, selectedPerson, childForm>>

\* addChildPerson with the child taking the team of its parent
addChildPerson_ParentTeam ==
    IF selectedPerson = Null \/ childName = "" THEN Return("addChildPerson")
    ELSE LET id == NumToString(Len(nodes) + 1)
             newChild == [id |-> id, name |-> childName, status |-> childStatus,
                          starred |-> childStarred, team |-> selectedPerson.team,
                          notes |-> ""]
             updatedNodes == Append(nodes, newChild)
             updatedLinks == Append(links, [source |-> selectedPerson.id, target |-> id])
         IN /\ Len(nodes) < MaxNodes
            /\ nodes' = updatedNodes
            /\ links' = updatedLinks
            /\ childName' = ""
            /\ childStatus' = "To do"
            /\ childStarred' = FALSE
            /\ saveData(updatedNodes, updatedLinks, "addChildPerson")
            /\ lastOp' = <<"addChildPerson", "done">>
            /\ UNCHANGED <<form, filters, selectedPerson>>

addChildPerson ==
    IF selectedPerson = Null \/ childName = "" THEN Return("addChildPerson")
    ELSE LET id == NumToString(Len(nodes) + 1)
             newChild == [id |-> id, name |-> childName, status |-> childStatus,
                          starred |-> childStarred, team |-> "", notes |-> ""]
             updatedNodes == Append(nodes, newChild)
             updatedLinks == Append(links, [source |-> selectedPerson.id, target |-> id])
         IN /\ Len(nodes) < MaxNodes
            /\ nodes' = updatedNodes
            /\ links' = updatedLinks
            /\ childName' = ""
            /\ childStatus' = "To do"
            /\ childStarred' = FALSE
            /\ saveData(updatedNodes, updatedLinks, "addChildPerson")
            /\ lastOp' = <<"addChildPerson", "done">>
            /\ UNCHANGED <<form, filters, selectedPerson>>

deletePerson ==
    IF selectedPerson = Null THEN Return("deletePerson")
    ELSE LET updatedNodes == SelectSeq(nodes, LAMBDA n : n.id # selectedPerson.id)
             updatedLinks == SelectSeq(links, LAMBDA l : /\ l.source # selectedPerson.id
                                                         /\ l.target # selectedPerson.id)
         IN /\ nodes' = updatedNodes
            /\ links' = updatedLinks
            /\ selectedPerson' = Null
            /\ saveData(updatedNodes, updatedLinks, "deletePerson")
            /\ lastOp' = <<"deletePerson", "done">>
            /\ UNCHANGED <<form, filters, childForm>>

-----------------------------------------------------------------------------
(* The page: graph events, index.tsx:327-354. *)

\* nodes.find((node) => node.id === nodeId): the first match, if any
find(nodeId) ==
    LET hits == SelectSeq(nodes, LAMBDA node : node.id = nodeId)
    IN IF hits = <<>> THEN Null ELSE Head(hits)

handleNodeClick(nodeId) ==
    IF StartsWith(nodeId, "team_") \/ find(nodeId) = Null
    THEN Return("handleNodeClick")
    ELSE /\ selectedPerson' = find(nodeId)
         /\ childName' = ""
         /\ childStatus' = "To do"
         /\ childStarred' = FALSE
         /\ lastOp' = <<"handleNodeClick", "done">>
         /\ UNCHANGED <<nodes, links, form, filters, server>>

\* the ids of the nodes handed to the widget
idsOf(rf) == {rf[i].id : i \in 1..Len(rf)}
rfNodeIds == idsOf(rfNodes)
draggableIds == idsOf(SelectSeq(rfNodes, LAMBDA n : n.draggable))

\* a click on one of the nodes handed to the widget
onNodeClick(nodeId) ==
    /\ nodeId \in rfNodeIds
    /\ IF StartsWith(nodeId, "team_") THEN Return("onNodeClick")
       ELSE handleNodeClick(nodeId)

handleNodePositionChange(nodeId, x, y) ==
    IF ~(\E i \in 1..Len(nodes) : nodes[i].id = nodeId)
    THEN Return("handleNodePositionChange")
    ELSE /\ nodes' = [i \in 1..Len(nodes) |->
                       IF nodes[i].id = nodeId THEN WithXY(nodes[i], x, y)
                       ELSE nodes[i]]
         /\ lastOp' = <<"handleNodePositionChange", "done">>
         /\ UNCHANGED <<links, form, filters, selectedPerson, childForm, server>>

\* the end of a drag of one of the draggable nodes handed to the widget
onNodeDragStop(nodeId, x, y) ==
    /\ nodeId \in draggableIds
    /\ handleNodePositionChange(nodeId, x, y)

-----------------------------------------------------------------------------
(* The page: form fields, index.tsx:394-499, 530-566, 641-795. *)

onChange(field) == lastOp' = <<"onChange", "done">>

setNewNodeName(v) ==
    /\ newNode' = [newNode EXCEPT !.name = v]
    /\ onChange("newNode.name")
    /\ UNCHANGED <<nodes, links, connection, teamOption, filters, selectedPerson,
                   childForm, server>>

\* new Set(nodes.map(team).filter(team !== '')), index.tsx:357-359
teamOptionsList == {nodes[i].team : i \in 1..Len(nodes)} \ {""}

\* the team select, index.tsx:411-419
setTeamOption(val) ==
    /\ val \in {"", "other"} \cup teamOptionsList
    /\ teamOption' = val
    /\ newNode' = [newNode EXCEPT !.team = IF val # "other" THEN val ELSE ""]
    /\ onChange("teamOption")
    /\ UNCHANGED <<nodes, links, connection, filters, selectedPerson, childForm, server>>

\* the "Enter new team" input, rendered when teamOption is 'other'
setNewNodeTeam(v) ==
    /\ teamOption = "other"
    /\ newNode' = [newNode EXCEPT !.team = v]
    /\ onChange("newNode.team")
    /\ UNCHANGED <<nodes, links, connection, teamOption, filters, selectedPerson,
                   childForm, server>>

setNewNodeStatus(v) ==
    /\ newNode' = [newNode EXCEPT !.status = v]
    /\ onChange("newNode.status")
    /\ UNCHANGED <<nodes, links, connection, teamOption, filters, selectedPerson,
                   childForm, server>>

setNewNodeStarred(v) ==
    /\ newNode' = [newNode EXCEPT !.starred = v]
    /\ onChange("newNode.starred")
    /\ UNCHANGED <<nodes, links, connection, teamOption, filters, selectedPerson,
                   childForm, server>>

\* the "Connect To" select offers None and the id of every Person
setConnection(v) ==
    /\ v \in {""} \cup {nodes[i].id : i \in 1..Len(nodes)}
    /\ connection' = v
    /\ onChange("connection")
    /\ UNCHANGED <<nodes, links, newNode, teamOption, filters, selectedPerson,
                   childForm, server>>

setFilterStatus(v) ==
    /\ filterStatus' = v
    /\ onChange("filterStatus")
    /\ UNCHANGED <<nodes, links, form, filterStarred, filterTeam, selectedPerson,
                   childForm, server>>

setFilterStarred(v) ==
    /\ filterStarred' = v
    /\ onChange("filterStarred")
    /\ UNCHANGED <<nodes, links, form, filterStatus, filterTeam, selectedPerson,
                   childForm, server>>

setFilterTeam(v) ==
    /\ filterTeam' = v
    /\ onChange("filterTeam")
    /\ UNCHANGED <<nodes, links, form, filterStatus, filterStarred, selectedPerson,
                   childForm, server>>

\* the fields of the modal exist while a Person is selected
setSelectedField(k, v) ==
    /\ selectedPerson # Null
    /\ selectedPerson' = [selectedPerson EXCEPT ![k] = v]
    /\ onChange("selectedPerson." \o k)
    /\ UNCHANGED <<nodes, links, form, filters, childForm, server>>

\* Cancel, or a click on the backdrop
closeModal ==
    /\ selectedPerson # Null
    /\ selectedPerson' = Null
    /\ lastOp' = <<"closeModal", "done">>
    /\ UNCHANGED <<nodes, links, form, filters, childForm, server>>

setChildName(v) ==
    /\ selectedPerson # Null
    /\ childName' = v
    /\ onChange("childName")
    /\ UNCHANGED <<nodes, links, form, filters, selectedPerson, childStatus,
                   childStarred, server>>

setChildStatus(v) ==
    /\ selectedPerson # Null
    /\ childStatus' = v
    /\ onChange("childStatus")
    /\ UNCHANGED <<nodes, links, form, filters, selectedPerson, childName,
                   childStarred, server>>

setChildStarred(v) ==
    /\ selectedPerson # Null
    /\ childStarred' = v
    /\ onChange("childStarred")
    /\ UNCHANGED <<nodes, links, form, filters, selectedPerson, childName,
                   childStatus, server>>

-----------------------------------------------------------------------------
(* The session: the page is mounted on a store that holds no document. *)

Init ==
    /\ nodes = <<>>
    /\ links = <<>>
    /\ newNode = EmptyNewNode
    /\ connection = ""
    /\ filterStatus = ""
    /\ filterStarred = FALSE
    /\ filterTeam = ""
    /\ teamOption = ""
    /\ selectedPerson = Null
    /\ childName = ""
    /\ childStatus = "To do"
    /\ childStarred = FALSE
    /\ file = NoFile
    /\ requests = SetToBag({loadRequest})
    /\ responses = EmptyBag
    /\ lastPost = Null
    /\ lastOp = <<"mount", "done">>

\* no fetch of the page is unanswered
Quiet == InFlight = 0

\* Spec is a session on a responsive network: the endpoint handles a fetch,
\* and the page receives the answer, before the user's next event.
Next ==
    \/ Quiet /\ \E v \in Names \cup {""} : setNewNodeName(v)
    \/ Quiet /\ \E v \in {NumToString(i) : i \in 1..MaxNodes} \cup {""} : setConnection(v)
    \/ Quiet /\ addNode
    \/ Quiet /\ \E nodeId \in rfNodeIds : onNodeClick(nodeId)
    \/ Quiet /\ closeModal
    \/ Quiet /\ updatePerson
    \/ Quiet /\ \E v \in Names \cup {""} : setChildName(v)
    \/ Quiet /\ addChildPerson
    \/ Quiet /\ deletePerson
    \/ \E req \in BagToSet(requests) : HandleRequest(req)
    \/ \E res \in BagToSet(responses) : ReceiveResponse(res)

Spec == Init /\ [][Next]_vars

-----------------------------------------------------------------------------
(* The graph repository, checked under Spec. *)

UniqueIds(ns) == \A i, j \in 1..Len(ns) : i # j => ns[i].id # ns[j].id

\* the decimal numeral of a small count, written out
Numeral(n) == <<"1", "2", "3", "4", "5", "6", "7", "8", "9", "10">>[n]

\* C2: no two Persons of the in-memory nodes, or of a document sent to
\* save, have the same id.
C2_UniqueIds ==
    /\ UniqueIds(nodes)
    /\ \A req \in BagToSet(requests) :
          req.method = "POST" => UniqueIds(req.payload.nodes)

\* C3: deletePerson on the selected Person removes exactly that one Person
\* and the Links with its id as source or target, and keeps the rest in order.
C3_DeleteExactlyOne ==
    [][(deletePerson /\ selectedPerson # Null) =>
          LET i == selectedPerson.id
          IN /\ \E k \in 1..Len(nodes) :
                   /\ nodes[k].id = i
                   /\ nodes' = SubSeq(nodes, 1, k - 1) \o SubSeq(nodes, k + 1, Len(nodes))
             /\ links' = SelectSeq(links, LAMBDA l : l.source # i /\ l.target # i)]_vars

\* C4: addPerson with an empty name changes neither nodes, links, the form
\* and connection fields nor the stored document, and issues no request.
C4_AddEmptyNameNoOp ==
    [][(addNode /\ newNode.name = "") =>
          UNCHANGED <<nodes, links, newNode, connection, teamOption, requests,
                      responses, file>>]_vars

\* addPerson has returned early on a page that holds Persons and a
\* connection choice
C4_Witness ==
    /\ lastOp = <<"addNode", "return">>
    /\ newNode.name = ""
    /\ connection # ""
    /\ Len(nodes) >= 1

\* C9: addPerson with a name appends one Person with id (node count + 1)
\* and empty notes, appends the Link (connectToId -> id) exactly when
\* connectToId is not empty, and changes no other Person or Link.
C9_AddPerson ==
    [][(addNode /\ newNode.name # "") =>
          LET id == Numeral(Len(nodes) + 1)
          IN /\ Len(nodes') = Len(nodes) + 1
             /\ SubSeq(nodes', 1, Len(nodes)) = nodes
             /\ Last(nodes').id = id
             /\ Last(nodes').notes = ""
             /\ Last(nodes').name = newNode.name
             /\ IF connection # ""
                THEN links' = Append(links, [source |-> connection, target |-> id])
                ELSE links' = links]_vars

\* addPerson has just appended a second Person and the Link to it
C9_Witness ==
    /\ lastOp = <<"addNode", "done">>
    /\ Len(nodes) >= 2
    /\ Len(links) >= 1
    /\ Last(links).target = Last(nodes).id
    /\ Last(links).source = nodes[1].id

-----------------------------------------------------------------------------
(* The filter engine applied to loaded documents.  The Persons of the      *)
(* document carry the ids "1", "2", ... of a session that only added, and   *)
(* its Links join any two ids, the id of no Person included.               *)

\* the page once it has applied the load of the stored document doc
LoadedFrom(doc) ==
    /\ nodes = doc.nodes
    /\ links = doc.links
    /\ newNode = EmptyNewNode
    /\ connection = ""
    /\ filterStatus = ""
    /\ filterStarred = FALSE
    /\ filterTeam = ""
    /\ teamOption = ""
    /\ selectedPerson = Null
    /\ childName = ""
    /\ childStatus = "To do"
    /\ childStarred = FALSE
    /\ file = <<JSONstringify(doc)>>
    /\ requests = EmptyBag
    /\ responses = EmptyBag
    /\ lastPost = doc
    /\ lastOp = <<"response", "loadData">>

\* the sequences of length n over the set S
SeqsOfLen(S, n) == [1..n -> S]

WithIds(seq) == [i \in 1..Len(seq) |-> [seq[i] EXCEPT !.id = NumToString(i)]]

FilterPersons ==
    [id : {""}, name : Names, status : {"Interview", "Rejected"},
     starred : BOOLEAN, team : {"", "Eng", "eng"}, notes : {""}]

FilterLinks(n) ==
    [source : {NumToString(i) : i \in 1..(n + 1)},
     target : {NumToString(i) : i \in 1..(n + 1)}]

FilterInit ==
    \E n \in 0..MaxViewNodes : \E seq \in SeqsOfLen(FilterPersons, n) :
        \E k \in ViewLinkCounts : \E ls \in SeqsOfLen(FilterLinks(n), k) :
            LoadedFrom([nodes |-> WithIds(seq), links |-> ls])

FilterNext ==
    \/ \E v \in {"", "Interview"} : setFilterStatus(v)
    \/ \E v \in BOOLEAN : setFilterStarred(v)
    \/ \E v \in {"", "Eng"} : setFilterTeam(v)

FilterSpec == FilterInit /\ [][FilterNext]_vars

\* the three conditions of the filter as the specification words them
Passes(p) ==
    /\ filterStatus = "" \/ p.status = filterStatus
    /\ ~filterStarred \/ p.starred
    /\ filterTeam = "" \/ p.team = filterTeam

AllIds == {nodes[i].id : i \in 1..Len(nodes)}
VisibleIds == {nodes[i].id : i \in {j \in 1..Len(nodes) : Passes(nodes[j])}}

InSeq(e, seq) == \E j \in 1..Len(seq) : seq[j] = e

\* C6: a Person is visible if and only if it meets the status, the starred
\* and the team condition; the visible Persons are Persons of nodes.
C6_FilterNodes ==
    /\ \A i \in 1..Len(nodes) : InSeq(nodes[i], filteredNodes) <=> Passes(nodes[i])
    /\ \A j \in 1..Len(filteredNodes) : InSeq(filteredNodes[j], nodes)

\* all three filters are set, one Person is shown and another is hidden
C6_Witness ==
    /\ filterStatus # "" /\ filterStarred /\ filterTeam # ""
    /\ Len(filteredNodes) >= 1
    /\ Len(filteredNodes) < Len(nodes)

\* C7: a stored Link is visible if and only if its source and its target
\* are ids of visible Persons; a dangling Link is never visible.
C7_FilterLinks ==
    /\ \A k \in 1..Len(links) :
          InSeq(links[k], filteredLinks)
              <=> (links[k].source \in VisibleIds /\ links[k].target \in VisibleIds)
    /\ \A k \in 1..Len(filteredLinks) :
          /\ InSeq(filteredLinks[k], links)
          /\ filteredLinks[k].source \in AllIds
          /\ filteredLinks[k].target \in AllIds

\* a filter is set and the Link from a visible Person to a Person that the
\* filter hides is dropped
C7_Witness ==
    /\ filterStatus # ""
    /\ \E k \in 1..Len(links) :
          /\ links[k].source \in VisibleIds
          /\ links[k].target \in AllIds \ VisibleIds
          /\ ~InSeq(links[k], filteredLinks)

-----------------------------------------------------------------------------
(* The edit modal on a loaded document: the page was mounted on a store    *)
(* that holds the document and the load has been applied.                  *)

ModalPersons ==
    [id : {""}, name : Names, status : {"To do"}, starred : BOOLEAN,
     team : TeamNames \cup {""}, notes : {""}]

ModalInit ==
    \E n \in 1..MaxNodes : \E seq \in SeqsOfLen(ModalPersons, n) :
        LoadedFrom([nodes |-> WithIds(seq), links |-> <<>>])

ModalNext ==
    \/ Quiet /\ \E nodeId \in rfNodeIds : onNodeClick(nodeId)
    \/ Quiet /\ \E v \in BOOLEAN : setSelectedField("starred", v)
    \/ Quiet /\ closeModal
    \/ Quiet /\ updatePerson
    \/ Quiet /\ \E v \in Names \cup {""} : setChildName(v)
    \/ Quiet /\ \E v \in {"To do", "Interview"} : setChildStatus(v)
    \/ Quiet /\ \E v \in BOOLEAN : setChildStarred(v)
    \/ Quiet /\ addChildPerson
    \/ Quiet /\ deletePerson
    \/ \E req \in BagToSet(requests) : HandleRequest(req)
    \/ \E res \in BagToSet(responses) : ReceiveResponse(res)

ModalSpec == ModalInit /\ [][ModalNext]_vars

\* C10: addChildPerson with a selected parent and a child name appends one
\* Person with empty team and id (node count + 1) and one Link (parent id ->
\* new id); with no selection or an empty child name it changes nothing and
\* issues no request.
C10_AddChildPerson ==
    [][addChildPerson =>
          IF selectedPerson = Null \/ childName = ""
          THEN UNCHANGED <<nodes, links, form, filters, selectedPerson, childForm,
                           server>>
          ELSE LET id == Numeral(Len(nodes) + 1)
               IN /\ Len(nodes') = Len(nodes) + 1
                  /\ SubSeq(nodes', 1, Len(nodes)) = nodes
                  /\ Last(nodes').id = id
                  /\ Last(nodes').team = ""
                  /\ Last(nodes').name = childName
                  /\ links' = Append(links, [source |-> selectedPerson.id,
                                             target |-> id])]_vars

\* a child has just been added to a parent that has a team
C10_Witness ==
    /\ lastOp = <<"addChildPerson", "done">>
    /\ selectedPerson # Null
    /\ selectedPerson.team # ""
    /\ Last(nodes).team = ""
    /\ Last(links) = [source |-> selectedPerson.id, target |-> Last(nodes).id]

-----------------------------------------------------------------------------
(* The persistence endpoint under the requests of any sessions.            *)

StorePerson1 ==
    [id |-> "1", name |-> "Ann", status |-> "To do", starred |-> FALSE,
     team |-> "", notes |-> ""]
StorePerson2 ==
    [id |-> "2", name |-> "Bob", status |-> "Rejected", starred |-> TRUE,
     team |-> "Eng", notes |-> "call back"]

StoreDocs ==
    { [nodes |-> <<>>, links |-> <<>>],
      [nodes |-> <<StorePerson1>>, links |-> <<>>],
      [nodes |-> <<WithXY(StorePerson1, 120, -35), StorePerson2>>,
       links |-> <<[source |-> "1", target |-> "2"]>>],
      [nodes |-> <<StorePerson2, WithXY(StorePerson2, 0, 7)>>,
       links |-> <<[source |-> "9", target |-> "2"]>>] }

\* a session calls fetch('/api/data'), index.tsx:92
sessionLoad ==
    /\ InFlight < MaxInFlight
    /\ requests' = requests (+) SetToBag({[loadRequest EXCEPT !.from = "session"]})
    /\ lastOp' = <<"session", "GET">>
    /\ UNCHANGED <<nodes, links, form, filters, selectedPerson, childForm, file,
                   responses, lastPost>>

\* a session calls saveData on its document, index.tsx:101-108
sessionSave(doc) ==
    /\ InFlight < MaxInFlight
    /\ requests' = requests (+) SetToBag({saveRequest(doc.nodes, doc.links, "session")})
    /\ lastOp' = <<"session", "POST">>
    /\ UNCHANGED <<nodes, links, form, filters, selectedPerson, childForm, file,
                   responses, lastPost>>

\* a client sends a request with another verb
otherRequest(method) ==
    /\ InFlight < MaxInFlight
    /\ requests' = requests (+) SetToBag({[loadRequest EXCEPT !.method = method,
                                                              !.from = "session"]})
    /\ lastOp' = <<"session", method>>
    /\ UNCHANGED <<nodes, links, form, filters, selectedPerson, childForm, file,
                   responses, lastPost>>

\* no page is mounted and the store holds no document
StoreInit ==
    /\ nodes = <<>>
    /\ links = <<>>
    /\ newNode = EmptyNewNode
    /\ connection = ""
    /\ filterStatus = ""
    /\ filterStarred = FALSE
    /\ filterTeam = ""
    /\ teamOption = ""
    /\ selectedPerson = Null
    /\ childName = ""
    /\ childStatus = "To do"
    /\ childStarred = FALSE
    /\ file = NoFile
    /\ requests = EmptyBag
    /\ responses = EmptyBag
    /\ lastPost = Null
    /\ lastOp = <<"session", "none">>

StoreNext ==
    \/ sessionLoad
    \/ \E doc \in StoreDocs : sessionSave(doc)
    \/ \E method \in {"PUT", "DELETE"} : otherRequest(method)
    \/ \E req \in BagToSet(requests) : HandleRequest(req)
    \/ \E res \in BagToSet(responses) : ReceiveResponse(res)

StoreSpec == StoreInit /\ [][StoreNext]_vars

\* C5: a GET handled after the POST of a document D, with no other POST
\* handled in between, is answered with a document equal to D.
C5_RoundTrip ==
    [][\A req \in BagToSet(requests) :
          (req.method = "GET" /\ lastPost # Null /\ HandleRequest(req)) =>
              \E res \in BagToSet(responses') :
                  /\ res.to = req.from
                  /\ res.status = 200
                  /\ CopiesIn(res, responses') = CopiesIn(res, responses) + 1
                  /\ JSONparse(res.body) = lastPost]_vars

\* a GET has been answered with the two Persons, the stored position and
\* the Link of the document posted last
C5_Witness ==
    /\ lastOp = <<"handler", "GET">>
    /\ lastPost # Null
    /\ Len(lastPost.nodes) = 2
    /\ HasField(lastPost.nodes[1], "x")
    /\ \E res \in BagToSet(responses) :
          /\ res.status = 200
          /\ "nodes" \in DOMAIN res.body
          /\ JSONparse(res.body) = lastPost

-----------------------------------------------------------------------------
(* The team layout on loaded documents whose Persons are then dragged.     *)

LayoutPersons ==
    [id : {""}, name : Names, status : {"To do"}, starred : {FALSE},
     team : {"", "Eng", "Ops"}, notes : {""}]

LayoutInit ==
    \E n \in 0..MaxViewNodes : \E seq \in SeqsOfLen(LayoutPersons, n) :
        LoadedFrom([nodes |-> WithIds(seq), links |-> <<>>])

LayoutNext ==
    \/ \E nodeId \in draggableIds, p \in DragStops : onNodeDragStop(nodeId, p[1], p[2])
    \/ \E v \in {"", "Eng"} : setFilterTeam(v)

LayoutSpec == LayoutInit /\ [][LayoutNext]_vars

\* the node handed to the widget for the Person with this id
rfNodeIn(rf, id) == rf[CHOOSE j \in 1..Len(rf) : rf[j].id = id]
rfNodeOf(id) == rfNodeIn(rfNodes, id)

\* C1: every visible Person that has a stored (x,y) is placed at exactly
\* that (x,y), with or without a team.
C1_ManualPositionPrecedence ==
    \A i \in 1..Len(filteredNodes) :
        LET person == filteredNodes[i]
        IN (HasField(person, "x") /\ HasField(person, "y")) =>
               rfNodeOf(person.id).position = [x |-> person.x, y |-> person.y]

-----------------------------------------------------------------------------
(* The edit modal, continued: updatePerson, checked under ModalSpec.       *)

\* the position in nodes of the Person that a click on nodeId selects
\* (nodes.find gives the first match), 0 when there is none
IndexOfFirst(ns, id) ==
    IF \E k \in 1..Len(ns) : ns[k].id = id
    THEN CHOOSE k \in 1..Len(ns) :
             /\ ns[k].id = id
             /\ \A j \in 1..(k - 1) : ns[j].id # id
    ELSE 0

\* C11: updatePerson puts the edited record in the place of the selected
\* Person and changes no other Person, neither the order nor the number of
\* nodes, and no Link; with no selection it changes nothing and issues no
\* request.
C11_UpdatePerson ==
    [][updatePerson =>
          IF selectedPerson = Null
          THEN UNCHANGED <<nodes, links, form, filters, selectedPerson, childForm,
                           server>>
          ELSE LET k == IndexOfFirst(nodes, selectedPerson.id)
               IN /\ Len(nodes') = Len(nodes)
                  /\ links' = links
                  /\ \A i \in 1..Len(nodes) :
                        nodes'[i] = IF i = k THEN selectedPerson ELSE nodes[i]]_vars

-----------------------------------------------------------------------------
(* The saves of the mutations, checked under Spec.                         *)

\* one of the four mutations has run to its save
EffectiveMutation ==
    /\ addNode \/ updatePerson \/ addChildPerson \/ deletePerson
    /\ lastOp'[2] = "done"

\* C12: every mutation that is not a no-op issues exactly one save request,
\* whose payload is the whole document {nodes, links} the mutation has just
\* produced, whatever the store holds.
C12_SaveAfterMutation ==
    [][EffectiveMutation =>
          \E req \in BagToSet(requests') :
              /\ requests' = requests (+) SetToBag({req})
              /\ req.method = "POST"
              /\ req.from = lastOp'[1]
              /\ req.payload = [nodes |-> nodes', links |-> links']
              /\ JSONparse(req.body) = req.payload]_vars

\* updatePerson has sent the document that the store already holds
C12_Witness ==
    /\ lastOp = <<"updatePerson", "done">>
    /\ file # NoFile
    /\ \E req \in BagToSet(requests) :
          /\ req.method = "POST"
          /\ req.payload = [nodes |-> nodes, links |-> links]
          /\ req.body = file[1]

-----------------------------------------------------------------------------
(* The drag of a Person, checked under LayoutSpec.                         *)

\* a drag has stopped on a Person of nodes
DragStopOnPerson ==
    /\ \E nodeId \in draggableIds, p \in DragStops : onNodeDragStop(nodeId, p[1], p[2])
    /\ lastOp' = <<"handleNodePositionChange", "done">>

\* C13: when a drag stops on a Person, a save request that carries the
\* nodes with the new (x,y) of that Person is issued.
C13_DragIsSaved ==
    [][DragStopOnPerson =>
          \E req \in BagToSet(requests') :
              /\ CopiesIn(req, requests') = CopiesIn(req, requests) + 1
              /\ req.method = "POST"
              /\ req.payload.nodes = nodes']_vars

-----------------------------------------------------------------------------
(* The persistence endpoint, continued: GET and the other verbs, checked   *)
(* under StoreSpec.                                                        *)

\* C16: a GET is answered with status 200 and the stored document, or with
\* {nodes: [], links: []} when no document is stored, and leaves the stored
\* document as it was.
C16_Get ==
    [][\A req \in BagToSet(requests) :
          (req.method = "GET" /\ HandleRequest(req)) =>
              /\ file' = file
              /\ \E res \in BagToSet(responses') :
                    /\ CopiesIn(res, responses') = CopiesIn(res, responses) + 1
                    /\ res.to = req.from
                    /\ res.status = 200
                    /\ JSONparse(res.body) =
                          IF file = NoFile THEN [nodes |-> <<>>, links |-> <<>>]
                          ELSE JSONparse(file[1])]_vars

\* a GET has been answered with the empty document by a store that holds
\* no document
C16_Witness ==
    /\ lastOp = <<"handler", "GET">>
    /\ file = NoFile
    /\ \E res \in BagToSet(responses) :
          /\ res.status = 200
          /\ res.body = JSONstringify([nodes |-> <<>>, links |-> <<>>])

\* C17: a request with a verb other than GET and POST is answered with
\* status 405 and no body, and leaves the stored document as it was.
C17_OtherVerb ==
    [][\A req \in BagToSet(requests) :
          (req.method \notin {"GET", "POST"} /\ HandleRequest(req)) =>
              /\ file' = file
              /\ \E res \in BagToSet(responses') :
                    /\ CopiesIn(res, responses') = CopiesIn(res, responses) + 1
                    /\ res.to = req.from
                    /\ res.status = 405
                    /\ res.body = Null]_vars

\* a DELETE has been answered with 405 by a store that holds a document
C17_Witness ==
    /\ lastOp = <<"handler", "DELETE">>
    /\ file # NoFile
    /\ \E res \in BagToSet(responses) : res.status = 405 /\ res.body = Null

-----------------------------------------------------------------------------
(* Two sessions that save to the same store.  Each session saves documents *)
(* that the other never saves.                                             *)

Sessions == {"A", "B"}

\* the documents a session has in memory when it saves
SessionDocs(session) ==
    IF session = "A"
    THEN { [nodes |-> <<StorePerson1>>, links |-> <<>>],
           [nodes |-> <<StorePerson1, StorePerson2>>,
            links |-> <<[source |-> "1", target |-> "2"]>>] }
    ELSE { [nodes |-> <<>>, links |-> <<>>],
           [nodes |-> <<StorePerson2>>, links |-> <<>>] }

\* a mutation of the session calls saveData on its document, index.tsx:101-108
sessionSaveFrom(session, doc) ==
    /\ InFlight < MaxInFlight
    /\ requests' = requests (+) SetToBag({saveRequest(doc.nodes, doc.links, session)})
    /\ lastOp' = <<session, "POST">>
    /\ UNCHANGED <<nodes, links, form, filters, selectedPerson, childForm, file,
                   responses, lastPost>>

RaceInit == StoreInit

RaceNext ==
    \/ \E session \in Sessions : \E doc \in SessionDocs(session) :
           sessionSaveFrom(session, doc)
    \/ sessionLoad
    \/ \E req \in BagToSet(requests) : HandleRequest(req)
    \/ \E res \in BagToSet(responses) : ReceiveResponse(res)

RaceSpec == RaceInit /\ [][RaceNext]_vars

\* C14: when the endpoint has handled a POST, the stored document is
\* exactly the payload of that POST, with nothing of what was stored before,
\* and the session is answered 200 'Data saved' whatever was stored.
C14_LastWriterWins ==
    [][\A req \in BagToSet(requests) :
          (req.method = "POST" /\ HandleRequest(req)) =>
              /\ file' = <<req.body>>
              /\ JSONparse(file'[1]) = req.payload
              /\ \E res \in BagToSet(responses') :
                    /\ CopiesIn(res, responses') = CopiesIn(res, responses) + 1
                    /\ res.to = req.from
                    /\ res.status = 200
                    /\ res.body = [message |-> "'Data saved'"]]_vars

\* the POSTs of both sessions have been handled, the one of B last: the
\* store holds the document of B and both sessions are answered 200
C14_Witness ==
    /\ lastOp = <<"handler", "POST">>
    /\ lastPost \in SessionDocs("B")
    /\ file = <<JSONstringify(lastPost)>>
    /\ \A session \in Sessions :
          \E res \in BagToSet(responses) : res.to = session /\ res.status = 200

-----------------------------------------------------------------------------
(* Fetches that fail.  The fetch of saveData is not in a try block and    *)
(* its response is not inspected, index.tsx:103-107.  When the request     *)
(* does not reach the endpoint the promise is rejected and the code after  *)
(* the await never runs.  When fs.writeFileSync throws, data.ts:17, the    *)
(* page is answered 500 and goes on as after any answer: the file is as it *)
(* was when it could not be opened, and is empty or cut short when the     *)
(* write failed after the file was opened.  When the endpoint has written  *)
(* data.json and its answer does not reach the page, the promise is        *)
(* rejected although the document is stored.                               *)

\* how a save fails: "rejected" and "500" store nothing, "truncated" is
\* answered 500 and leaves a text that is no document, "lost" stores the
\* body and loses the answer
FailureOutcomes == {"rejected", "500", "truncated", "lost"}

\* data.json after the save request req has failed with outcome
storedAfter(req, outcome) ==
    IF outcome = "lost" THEN handler(req, file).stored
    ELSE IF outcome = "truncated" THEN <<EmptyText>>
    ELSE file

\* FailRequest that sends the request again
FailRequest_Retries(req) ==
    /\ BagIn(req, requests)
    /\ req.method = "POST"
    /\ \E outcome \in FailureOutcomes :
          /\ responses' = IF outcome \in {"500", "truncated"}
                          THEN responses (+) SetToBag({[status |-> 500, body |-> Null,
                                                        to |-> req.from]})
                          ELSE responses
          /\ file' = storedAfter(req, outcome)
          /\ lastPost' = IF outcome = "lost" THEN req.payload ELSE lastPost
          /\ lastOp' = <<"fetch", outcome>>
    /\ requests' = requests
    /\ UNCHANGED <<nodes, links, form, filters, selectedPerson, childForm>>

\* the save request req fails
FailRequest(req) ==
    /\ BagIn(req, requests)
    /\ req.method = "POST"
    /\ \E outcome \in FailureOutcomes :
          /\ responses' = IF outcome \in {"500", "truncated"}
                          THEN responses (+) SetToBag({[status |-> 500, body |-> Null,
                                                        to |-> req.from]})
                          ELSE responses
          /\ file' = storedAfter(req, outcome)
          /\ lastPost' = IF outcome = "lost" THEN req.payload ELSE lastPost
          /\ lastOp' = <<"fetch", outcome>>
    /\ requests' = requests (-) SetToBag({req})
    /\ UNCHANGED <<nodes, links, form, filters, selectedPerson, childForm>>

\* the fetch of loadData is rejected: res.json() is not reached and nothing
\* is set, index.tsx:92-95
FailLoad(req) ==
    /\ BagIn(req, requests)
    /\ req.method = "GET"
    /\ requests' = requests (-) SetToBag({req})
    /\ lastOp' = <<"loadData", "rejected">>
    /\ UNCHANGED <<nodes, links, form, filters, selectedPerson, childForm, file,
                   responses, lastPost>>

\* the session reloads the page: the state of Home is initialised again and
\* the effect of the mount fetches the stored document, index.tsx:55-98
mount ==
    /\ nodes' = <<>>
    /\ links' = <<>>
    /\ newNode' = EmptyNewNode
    /\ connection' = ""
    /\ filterStatus' = ""
    /\ filterStarred' = FALSE
    /\ filterTeam' = ""
    /\ teamOption' = ""
    /\ selectedPerson' = Null
    /\ childName' = ""
    /\ childStatus' = "To do"
    /\ childStarred' = FALSE
    /\ requests' = requests (+) SetToBag({loadRequest})
    /\ lastOp' = <<"mount", "done">>
    /\ UNCHANGED <<file, responses, lastPost>>

\* one Person is stored and loaded
FailInit ==
    \E p \in ModalPersons :
        /\ ~p.starred
        /\ p.team = ""
        /\ LoadedFrom([nodes |-> WithIds(<<p>>), links |-> <<>>])

FailNext ==
    \/ Quiet /\ \E v \in Names : setNewNodeName(v)
    \/ Quiet /\ addNode
    \/ Quiet /\ \E nodeId \in rfNodeIds : onNodeClick(nodeId)
    \/ Quiet /\ \E nodeId \in rfNodeIds, p \in DragStops :
                    handleNodePositionChange(nodeId, p[1], p[2])
    \/ Quiet /\ \E v \in BOOLEAN : setSelectedField("starred", v)
    \/ Quiet /\ closeModal
    \/ Quiet /\ updatePerson
    \/ Quiet /\ \E v \in Names : setChildName(v)
    \/ Quiet /\ addChildPerson
    \/ Quiet /\ deletePerson
    \/ Quiet /\ mount
    \/ \E req \in BagToSet(requests) : HandleRequest(req)
    \/ \E req \in BagToSet(requests) : FailRequest(req)
    \/ \E req \in BagToSet(requests) : FailLoad(req)
    \/ \E res \in BagToSet(responses) : ReceiveResponse(res)

FailSpec == FailInit /\ [][FailNext]_vars

\* the in-memory document is not the stored one
Diverged ==
    \/ file = NoFile
    \/ file[1] = EmptyText
    \/ JSONparse(file[1]) # [nodes |-> nodes, links |-> links]

\* the step is the failure of a save request
SaveFails == \E req \in BagToSet(requests) : FailRequest(req)

\* the step stores a save (answered, or with its answer lost) or is part of
\* a reload of the session
SavedOrReloaded ==
    \/ \E req \in BagToSet(requests) : req.method = "POST" /\ HandleRequest(req)
    \/ SaveFails /\ lastOp' = <<"fetch", "lost">>
    \/ mount
    \/ \E res \in BagToSet(responses) : res.to = "loadData" /\ ReceiveResponse(res)

\* the step is a mutation or a drag of the user that changes nodes or links
UserChange ==
    /\ lastOp'[1] \in {"addNode", "updatePerson", "addChildPerson", "deletePerson",
                       "handleNodePositionChange"}
    /\ <<nodes, links>>' # <<nodes, links>>

-----------------------------------------------------------------------------
(* Team nodes and team links, checked under ModalSpec.                     *)

\* a document without team nodes and without links from team nodes
NoTeamParts(doc) ==
    /\ \A i \in 1..Len(doc.nodes) : ~StartsWith(doc.nodes[i].id, "team_")
    /\ \A i \in 1..Len(doc.links) : ~StartsWith(doc.links[i].source, "team_")

\* C18: neither the in-memory nodes and links, nor the payload of a save
\* request, nor the stored document holds a node with a "team_" id or a
\* link whose source is a "team_" id.
C18_TeamsNotStored ==
    /\ NoTeamParts([nodes |-> nodes, links |-> links])
    /\ \A req \in BagToSet(requests) :
          req.method = "POST" => NoTeamParts(req.payload)
    /\ file # NoFile => NoTeamParts(JSONparse(file[1]))

\* a save is in flight while the graph shows a team node and a team link
C18_Witness ==
    /\ \E req \in BagToSet(requests) : req.method = "POST"
    /\ \E i \in 1..Len(graphNodes) : StartsWith(graphNodes[i].id, "team_")
    /\ \E i \in 1..Len(graphLinks) : StartsWith(graphLinks[i].source, "team_")

\* C19: while the save of updatePerson or deletePerson is not answered, the
\* selection is not cleared.
C19_SelectionClearedAfterSave ==
    \/ selectedPerson # Null
    \/ /\ \A req \in BagToSet(requests) : req.from \notin {"updatePerson", "deletePerson"}
       /\ \A res \in BagToSet(responses) : res.to \notin {"updatePerson", "deletePerson"}

-----------------------------------------------------------------------------
(* The team nodes of the layout, checked under LayoutSpec.                 *)

\* the place of the first Person of the team in the sequence visible
FirstSeen(visible, team) ==
    CHOOSE i \in 1..Len(visible) :
        /\ visible[i].team = team
        /\ \A j \in 1..(i - 1) : visible[j].team # team

\* teamNodes holds one node "team_" + team for each team of the Persons of
\* visible, the empty team left out, in the order in which the teams are
\* first seen in visible
TeamNodesOf(teamNodes, visible) ==
    LET teams == {visible[i].team : i \in 1..Len(visible)} \ {""}
    IN /\ {teamNodes[k].label : k \in 1..Len(teamNodes)} = teams
       /\ Len(teamNodes) = Cardinality(teams)
       /\ \A k \in 1..Len(teamNodes) : teamNodes[k].id = "team_" \o teamNodes[k].label
       /\ \A j, k \in 1..Len(teamNodes) :
             j < k => FirstSeen(visible, teamNodes[j].label)
                          < FirstSeen(visible, teamNodes[k].label)

\* C20: the layout has exactly one team node for each distinct non-empty
\* team of the visible Persons, with id "team_" + team, in the order of
\* first appearance of the teams among the visible Persons.
C20_TeamNodes == TeamNodesOf(pinnedTeamNodes, filteredNodes)

\* the team filter hides the only Person of one team and shows a Person of
\* another: the layout has the team node of the visible Person alone
C20_Witness ==
    /\ filterTeam = "Eng"
    /\ \E i \in 1..Len(nodes) : nodes[i].team = "Ops"
    /\ Len(pinnedTeamNodes) = 1
    /\ pinnedTeamNodes[1].id = "team_Eng"

-----------------------------------------------------------------------------
(* The grid of the team nodes, on loaded documents in which every Person   *)
(* has a team of its own.                                                  *)

\* the i-th Person of such a document
GridPerson(i) ==
    [id |-> NumToString(i), name |-> "Ann",
     status |-> IF i % 2 = 0 THEN "Interview" ELSE "To do",
     starred |-> (i % 3 = 0), team |-> "T" \o NumToString(i), notes |-> ""]

GridInit ==
    \E n \in 0..MaxTeams :
        LoadedFrom([nodes |-> [i \in 1..n |-> GridPerson(i)], links |-> <<>>])

GridNext ==
    \/ \E v \in {"", "Interview"} : setFilterStatus(v)
    \/ \E v \in BOOLEAN : setFilterStarred(v)
    \/ \E v \in {"", "T1", "T10"} : setFilterTeam(v)

GridSpec == GridInit /\ [][GridNext]_vars

\* the row offsets of the grid, written out
RowOffset(row) ==
    IF row = 0 THEN 50 ELSE IF row = 1 THEN 450 ELSE IF row = 2 THEN 850 ELSE 0

\* the k-th team node (from 0) is pinned in column k mod 3 and row k div 3
\* and is handed to the widget at that place
PinnedOnGrid(pinned, rf) ==
    \A k \in 0..(Len(pinned) - 1) :
        /\ pinned[k + 1].fx = ((k % 3) + 1) * 800
        /\ pinned[k + 1].fy = RowOffset(k \div 3)
        /\ rfNodeIn(rf, pinned[k + 1].id).position =
               [x |-> ((k % 3) + 1) * 800, y |-> RowOffset(k \div 3)]

\* C21: the team with first-seen index k is pinned at x = ((k mod 3) + 1) *
\* 800 and y = 50, 450 or 850 for the rows 0, 1 and 2, and y = 0 for every
\* later row.
C21_TeamGrid == PinnedOnGrid(pinnedTeamNodes, rfNodes)

\* the filters have been cleared again and ten teams are visible: the tenth
\* starts the fourth row, at (800, 0)
C21_Witness ==
    /\ lastOp = <<"onChange", "done">>
    /\ Len(pinnedTeamNodes) >= 10
    /\ pinnedTeamNodes[10].fx = 800
    /\ pinnedTeamNodes[10].fy = 0
    /\ pinnedTeamNodes[9].fy = 850

-----------------------------------------------------------------------------
(* Clicks and drag stops on the nodes of the graph, team nodes included,   *)
(* in a session that also deletes Persons and adds children.               *)

InteractPersons ==
    [id : {""}, name : Names, status : {"To do"}, starred : {FALSE},
     team : TeamNames \cup {""}, notes : {""}]

InteractInit ==
    \E n \in 1..MaxNodes : \E seq \in SeqsOfLen(InteractPersons, n) :
        LoadedFrom([nodes |-> WithIds(seq), links |-> <<>>])

\* the ids for which the widget may report a drag stop: those of its nodes
\* and one of no node
DragIds == rfNodeIds \cup {"9"}

InteractNext ==
    \/ Quiet /\ \E nodeId \in rfNodeIds : onNodeClick(nodeId)
    \/ Quiet /\ \E nodeId \in DragIds, p \in DragStops :
                    handleNodePositionChange(nodeId, p[1], p[2])
    \/ Quiet /\ \E v \in Names : setChildName(v)
    \/ Quiet /\ addChildPerson
    \/ Quiet /\ deletePerson
    \/ \E req \in BagToSet(requests) : HandleRequest(req)
    \/ \E res \in BagToSet(responses) : ReceiveResponse(res)

InteractSpec == InteractInit /\ [][InteractNext]_vars

\* after is before with x and y set to the place p and nothing else changed
MovedTo(before, after, p) ==
    /\ DOMAIN after = DOMAIN before \cup {"x", "y"}
    /\ after.x = p[1]
    /\ after.y = p[2]
    /\ \A f \in DOMAIN before \ {"x", "y"} : after[f] = before[f]

\* C22: a click on a node with a "team_" id selects no Person; a drag stop
\* for an id of no Person changes neither nodes nor links; a drag stop on a
\* Person changes the x and y of that Person and nothing else.
C22_TeamNodesInert ==
    [][/\ \A nodeId \in rfNodeIds :
             (StartsWith(nodeId, "team_") /\ onNodeClick(nodeId)) =>
                 UNCHANGED <<selectedPerson, nodes, links>>
       /\ \A nodeId \in DragIds, p \in DragStops :
             handleNodePositionChange(nodeId, p[1], p[2]) =>
                 LET k == IndexOfFirst(nodes, nodeId)
                 IN /\ links' = links
                    /\ Len(nodes') = Len(nodes)
                    /\ \A i \in 1..Len(nodes) :
                          IF i = k THEN MovedTo(nodes[i], nodes'[i], p)
                          ELSE nodes'[i] = nodes[i]]_vars

-----------------------------------------------------------------------------
(* The Links of a session that starts from an empty store, checked under   *)
(* Spec.                                                                   *)

\* C23: both endpoints of every in-memory Link are ids of Persons of nodes.
C23_NoDanglingLink ==
    \A k \in 1..Len(links) :
        /\ \E i \in 1..Len(nodes) : nodes[i].id = links[k].source
        /\ \E i \in 1..Len(nodes) : nodes[i].id = links[k].target

\* C27: no in-memory Link, each of them appended by addPerson or
\* addChildPerson, has a source equal to its target.
C27_NoSelfLink ==
    \A k \in 1..Len(links) : links[k].source # links[k].target

-----------------------------------------------------------------------------
(* The edges handed to the widget, checked under FilterSpec.               *)

\* every edge of edges joins two of the nodes with the ids nodeIds: two
\* visible Persons, or the team node of a team and a visible member of it
EdgesJoinNodes(edges, nodeIds, visible) ==
    \A k \in 1..Len(edges) :
        /\ edges[k].source \in nodeIds
        /\ edges[k].target \in nodeIds
        /\ IF StartsWith(edges[k].source, "team_")
           THEN \E i \in 1..Len(visible) :
                    /\ visible[i].id = edges[k].target
                    /\ visible[i].team # ""
                    /\ edges[k].source = "team_" \o visible[i].team
           ELSE /\ edges[k].source \in VisibleIds
                /\ edges[k].target \in VisibleIds

\* C26: every edge handed to the widget has both endpoints among the nodes
\* handed to the widget: a link between Persons joins two visible Persons
\* and a team link joins a team node to a visible member of that team.
C26_EdgesJoinNodes == EdgesJoinNodes(rfEdges, rfNodeIds, filteredNodes)

\* the status filter hides one end of a stored Link: the Link is not handed
\* to the widget, the team edge of the visible Person is
C26_Witness ==
    /\ filterStatus # ""
    /\ Len(links) >= 1
    /\ \E k \in 1..Len(links) :
          links[k].source \in VisibleIds /\ links[k].target \in AllIds \ VisibleIds
    /\ \E k \in 1..Len(rfEdges) : StartsWith(rfEdges[k].source, "team_")
    /\ \A k \in 1..Len(rfEdges) : rfEdges[k].target \in VisibleIds

-----------------------------------------------------------------------------
(* One session whose mutations overlap: the user goes on while the save of *)
(* an earlier mutation is in flight, and the endpoint handles the requests *)
(* in the order in which they reach it.                                    *)

OverlapInit ==
    \E p \in InteractPersons : LoadedFrom([nodes |-> WithIds(<<p>>), links |-> <<>>])

\* the user can act: the number of fetches in flight is below the bound
Room == InFlight < MaxInFlight

OverlapNext ==
    \/ Room /\ \E nodeId \in rfNodeIds : onNodeClick(nodeId)
    \/ Room /\ \E v \in BOOLEAN : setSelectedField("starred", v)
    \/ Room /\ updatePerson
    \/ Room /\ \E v \in Names : setChildName(v)
    \/ Room /\ addChildPerson
    \/ \E req \in BagToSet(requests) : HandleRequest(req)
    \/ \E res \in BagToSet(responses) : ReceiveResponse(res)

OverlapSpec == OverlapInit /\ [][OverlapNext]_vars

\* C24: whenever no fetch of the session is outstanding, the stored
\* document is the in-memory document, which is the payload of the mutation
\* invoked last.
C24_StoredIsLatest ==
    Quiet => /\ file # NoFile
             /\ JSONparse(file[1]) = [nodes |-> nodes, links |-> links]

-----------------------------------------------------------------------------
(* The mount: the user adds Persons while the load of the mount is in      *)
(* flight.  The session starts as Spec does, on a store with no document.  *)

EarlyNext ==
    \/ Room /\ \E v \in Names \cup {""} : setNewNodeName(v)
    \/ Room /\ \E v \in {NumToString(i) : i \in 1..MaxNodes} \cup {""} : setConnection(v)
    \/ Room /\ addNode
    \/ \E req \in BagToSet(requests) : HandleRequest(req)
    \/ \E res \in BagToSet(responses) : ReceiveResponse(res)

EarlySpec == Init /\ [][EarlyNext]_vars

\* C25: when the response of the load of the mount is applied, the Persons
\* added before are still in nodes, and nodes and links are still what the
\* session sent to save last.
C25_LoadKeepsMutations ==
    [][\A res \in BagToSet(responses) :
          (res.to = "loadData" /\ ReceiveResponse(res) /\ Len(nodes) >= 1) =>
              /\ \A i \in 1..Len(nodes) : InSeq(nodes[i], nodes')
              /\ UNCHANGED <<nodes, links>>]_vars
====
